---- MODULE Spec2Model ----
(***************************************************************************)
(* Model of src/app.py, the Streamlit solar rooftop estimation tool.       *)
(*                                                                         *)
(* A Streamlit script is re-run from its first line on every widget        *)
(* interaction.  One run is modelled as a pipeline                         *)
(*   script start (lines 159-182)  -> "geocode"     (lines 184-188)        *)
(*                                 -> "irradiance"  (lines 190-211)        *)
(*                                 -> "calculate"   (lines 213-231)        *)
(*                                 -> "done"                               *)
(* and every interaction of the user (one widget changed, or one button    *)
(* pressed) starts the next run.                                           *)
(*                                                                         *)
(* Numbers.  The script only multiplies, divides and compares its floats;  *)
(* it never adds them.  A number is therefore kept exactly, as             *)
(*      [n, d, u]   standing for   (n / d) * M2_TO_SQFT ^ u                *)
(* with n/d in lowest terms, d > 0 and zero written [0, 1, 0].  The factor *)
(* M2_TO_SQFT = 10.7639 = 107639/10000 is carried as the exponent u, so    *)
(* that 107639 (7 * 15377, primes no other constant of the script holds)   *)
(* never enters n or d; the representation of a value is then unique and   *)
(* record equality is equality of values.                                  *)
(***************************************************************************)
EXTENDS Integers, Sequences, FiniteSets, TLC

\* ------------------------------------------------------------------------
\* Bounds of the model
\* ------------------------------------------------------------------------
\* roof areas entered directly: 100, 150, ... , 100 + 50 * MaxAreaSteps sq ft
MaxAreaSteps == 9
\* shadow-free areas entered: 50, ... , 50 + 250 * MaxShadowSteps sq ft
MaxShadowSteps == 1

\* ------------------------------------------------------------------------
\* Optional values (Python's None)
\* ------------------------------------------------------------------------
None == <<>>
Some(x) == <<x>>
Val(o) == o[1]

\* ------------------------------------------------------------------------
\* Exact arithmetic
\* ------------------------------------------------------------------------
Abs(i) == IF i < 0 THEN -i ELSE i

RECURSIVE GCD(_, _)
GCD(a, b) == IF b = 0 THEN a ELSE GCD(b, a % b)

Norm(n, d, u) ==
    IF n = 0 THEN [n |-> 0, d |-> 1, u |-> 0]
    ELSE LET g == GCD(Abs(n), d) IN [n |-> n \div g, d |-> d \div g, u |-> u]

Rat(n, d) == Norm(n, d, 0)
Int2Num(i) == Rat(i, 1)

Sign(x) == IF x.n > 0 THEN 1 ELSE IF x.n < 0 THEN -1 ELSE 0

Mul(x, y) ==
    IF x.n = 0 \/ y.n = 0 THEN Norm(0, 1, 0)
    ELSE LET g1 == GCD(Abs(x.n), y.d)
             g2 == GCD(Abs(y.n), x.d)
         IN  [n |-> (x.n \div g1) * (y.n \div g2),
              d |-> (x.d \div g2) * (y.d \div g1),
              u |-> x.u + y.u]

\* 1 / y, for y # 0
Inv(y) == IF y.n > 0 THEN [n |-> y.d, d |-> y.n, u |-> -y.u]
                     ELSE [n |-> -y.d, d |-> -y.n, u |-> -y.u]

Div(x, y) == Mul(x, Inv(y))

M2_TO_SQFT_NUM == 107639
M2_TO_SQFT_DEN == 10000
M2_TO_SQFT == [n |-> 1, d |-> 1, u |-> 1]

\* x < y, the unit factor taken at its value 107639/10000
Less(x, y) ==
    LET k == x.u - y.u
        l == IF k = 1 THEN x.n * y.d * M2_TO_SQFT_NUM
             ELSE IF k = -1 THEN x.n * y.d * M2_TO_SQFT_DEN
             ELSE x.n * y.d
        r == IF k = 1 THEN y.n * x.d * M2_TO_SQFT_DEN
             ELSE IF k = -1 THEN y.n * x.d * M2_TO_SQFT_NUM
             ELSE y.n * x.d
    IN  l < r

Leq(x, y) == ~Less(y, x)

\* ------------------------------------------------------------------------
\* Config / constants
\* ------------------------------------------------------------------------
STATE_IRRADIANCES ==
    [s \in {"Andhra Pradesh"} |-> 1700] @@ [s \in {"Arunachal Pradesh"} |-> 1400] @@
    [s \in {"Assam"} |-> 1500] @@ [s \in {"Bihar"} |-> 1600] @@
    [s \in {"Chhattisgarh"} |-> 1800] @@ [s \in {"Goa"} |-> 1900] @@
    [s \in {"Gujarat"} |-> 2000] @@ [s \in {"Haryana"} |-> 1700] @@
    [s \in {"Himachal Pradesh"} |-> 1500] @@ [s \in {"Jharkhand"} |-> 1600] @@
    [s \in {"Karnataka"} |-> 1800] @@ [s \in {"Kerala"} |-> 1600] @@
    [s \in {"Madhya Pradesh"} |-> 1900] @@ [s \in {"Maharashtra"} |-> 1800] @@
    [s \in {"Manipur"} |-> 1400] @@ [s \in {"Meghalaya"} |-> 1400] @@
    [s \in {"Mizoram"} |-> 1400] @@ [s \in {"Nagaland"} |-> 1400] @@
    [s \in {"Odisha"} |-> 1700] @@ [s \in {"Punjab"} |-> 1700] @@
    [s \in {"Rajasthan"} |-> 2000] @@ [s \in {"Sikkim"} |-> 1400] @@
    [s \in {"Tamil Nadu"} |-> 1900] @@ [s \in {"Telangana"} |-> 1800] @@
    [s \in {"Tripura"} |-> 1500] @@ [s \in {"Uttar Pradesh"} |-> 1700] @@
    [s \in {"Uttarakhand"} |-> 1500] @@ [s \in {"West Bengal"} |-> 1600] @@
    [s \in {"Andaman and Nicobar Islands"} |-> 1700] @@
    [s \in {"Chandigarh"} |-> 1700] @@
    [s \in {"Dadra and Nagar Haveli and Daman and Diu"} |-> 1800] @@
    [s \in {"Lakshadweep"} |-> 1700] @@ [s \in {"Delhi"} |-> 1700]

\* tariffs in tenths of a rupee per kWh (6.5 is 65)
STATE_TARIFFS ==
    [s \in {"Andhra Pradesh"} |-> 65] @@ [s \in {"Arunachal Pradesh"} |-> 60] @@
    [s \in {"Assam"} |-> 60] @@ [s \in {"Bihar"} |-> 55] @@
    [s \in {"Chhattisgarh"} |-> 55] @@ [s \in {"Goa"} |-> 65] @@
    [s \in {"Gujarat"} |-> 75] @@ [s \in {"Haryana"} |-> 70] @@
    [s \in {"Himachal Pradesh"} |-> 60] @@ [s \in {"Jharkhand"} |-> 55] @@
    [s \in {"Karnataka"} |-> 72] @@ [s \in {"Kerala"} |-> 65] @@
    [s \in {"Madhya Pradesh"} |-> 60] @@ [s \in {"Maharashtra"} |-> 90] @@
    [s \in {"Manipur"} |-> 60] @@ [s \in {"Meghalaya"} |-> 60] @@
    [s \in {"Mizoram"} |-> 60] @@ [s \in {"Nagaland"} |-> 60] @@
    [s \in {"Odisha"} |-> 60] @@ [s \in {"Punjab"} |-> 65] @@
    [s \in {"Rajasthan"} |-> 60] @@ [s \in {"Sikkim"} |-> 60] @@
    [s \in {"Tamil Nadu"} |-> 65] @@ [s \in {"Telangana"} |-> 68] @@
    [s \in {"Tripura"} |-> 60] @@ [s \in {"Uttar Pradesh"} |-> 70] @@
    [s \in {"Uttarakhand"} |-> 60] @@ [s \in {"West Bengal"} |-> 65] @@
    [s \in {"Andaman and Nicobar Islands"} |-> 65] @@
    [s \in {"Chandigarh"} |-> 70] @@
    [s \in {"Dadra and Nagar Haveli and Daman and Diu"} |-> 70] @@
    [s \in {"Lakshadweep"} |-> 65] @@ [s \in {"Delhi"} |-> 80]

PANEL_EFFICIENCY == Rat(20, 100)
SYSTEM_DERATE == Rat(85, 100)
COST_PER_KW == 50000
CO2_FACTOR == Rat(82, 100)
SPECIFIC_YIELD == 1500

HOUSE_TYPE_AREA ==
    [h \in {"Villa"} |-> 250] @@ [h \in {"Independent House"} |-> 120] @@
    [h \in {"2 BHK"} |-> 80] @@ [h \in {"3 BHK"} |-> 120] @@
    [h \in {"Other"} |-> 100]

ORIENTATION_FACTOR ==
    [o \in {"South (best)"} |-> Rat(10, 10)] @@ [o \in {"East"} |-> Rat(8, 10)] @@
    [o \in {"West"} |-> Rat(8, 10)] @@ [o \in {"North"} |-> Rat(5, 10)]

ROOF_MIN == 100
ROOF_STEP == 50
SHADOW_MIN == 50

\* ------------------------------------------------------------------------
\* Responses of the external services (what requests.get may produce)
\* ------------------------------------------------------------------------
\* Nominatim: the call raises (network error, timeout, malformed body), or
\* answers with a status and a list of matches.
GeoResponses ==
    { [raised |-> TRUE,  status |-> 0,   results |-> <<>>],
      [raised |-> FALSE, status |-> 500, results |-> <<>>],
      [raised |-> FALSE, status |-> 200, results |-> <<>>],
      [raised |-> FALSE, status |-> 200, results |-> <<[lat |-> 28, lon |-> 77]>>],
      [raised |-> FALSE, status |-> 200, results |-> <<[lat |-> 0, lon |-> 77]>>] }

\* PVGIS: the call raises, or answers with a status and a body in which
\* outputs.totals.fixed.E_y is absent (None) or a number, and which may
\* carry the annual yield under another field name (alt).
PvgisResponses ==
    { [raised |-> TRUE,  status |-> 0,   E_y |-> None, alt |-> None],
      [raised |-> FALSE, status |-> 500, E_y |-> None, alt |-> None],
      [raised |-> FALSE, status |-> 200, E_y |-> None, alt |-> None],
      [raised |-> FALSE, status |-> 200, E_y |-> None, alt |-> Some(Int2Num(1650))],
      [raised |-> FALSE, status |-> 200, E_y |-> Some(Int2Num(0)), alt |-> None],
      [raised |-> FALSE, status |-> 200, E_y |-> Some(Int2Num(1600)), alt |-> None],
      [raised |-> FALSE, status |-> 200, E_y |-> Some(Int2Num(1600)),
       alt |-> Some(Int2Num(1650))] }

\* ------------------------------------------------------------------------
\* Helper functions
\* ------------------------------------------------------------------------
Msg(level, about) == [level |-> level, about |-> about]

\* Python truthiness of an optional number: None and 0 are false
Truthy(o) == o # None /\ Val(o) # 0

geocode_address(r) ==
    IF r.raised
    THEN [lat |-> None, lon |-> None, out |-> <<Msg("warning", "geocoding failed")>>]
    ELSE IF r.status = 200 /\ r.results # <<>>
    THEN [lat |-> Some(r.results[1].lat), lon |-> Some(r.results[1].lon), out |-> <<>>]
    ELSE [lat |-> None, lon |-> None, out |-> <<>>]

\* get_pvgis_irradiance reading a second field name when E_y is missing
get_pvgis_irradiance_Alternate(r) ==
    IF r.raised
    THEN [ret |-> None, out |-> <<Msg("warning", "PVGIS fetch failed")>>]
    ELSE IF r.status = 200
    THEN IF r.E_y # None /\ Sign(Val(r.E_y)) # 0
         THEN [ret |-> r.E_y, out |-> <<Msg("info", "PVGIS irradiance found")>>]
         ELSE IF r.alt # None /\ Sign(Val(r.alt)) # 0
         THEN [ret |-> r.alt, out |-> <<Msg("info", "PVGIS irradiance found")>>]
         ELSE [ret |-> None, out |-> <<Msg("warning", "PVGIS no irradiance")>>]
    ELSE [ret |-> None, out |-> <<Msg("warning", "PVGIS status")>>]

get_pvgis_irradiance(r) ==
    IF r.raised
    THEN [ret |-> None, out |-> <<Msg("warning", "PVGIS fetch failed")>>]
    ELSE IF r.status = 200
    THEN IF r.E_y # None /\ Sign(Val(r.E_y)) # 0
         THEN [ret |-> r.E_y, out |-> <<Msg("info", "PVGIS irradiance found")>>]
         ELSE [ret |-> None, out |-> <<Msg("warning", "PVGIS no irradiance")>>]
    ELSE [ret |-> None, out |-> <<Msg("warning", "PVGIS status")>>]

\* min dropped: the roof area taken as it is
Min_First(a, b) == a

\* Python's min(a, b): b when b < a, else a
Min(a, b) == IF Less(b, a) THEN b ELSE a

\* the generation without the system derate
AnnualGen_NoDerate(effective_area, irradiance, orientation_factor) ==
    Mul(Mul(Mul(effective_area, irradiance), PANEL_EFFICIENCY), orientation_factor)

AnnualGen(effective_area, irradiance, orientation_factor) ==
    Mul(Mul(Mul(Mul(effective_area, irradiance), PANEL_EFFICIENCY), SYSTEM_DERATE),
        orientation_factor)

CapacityKw(annual_gen) == Div(annual_gen, Int2Num(SPECIFIC_YIELD))

\* the payback set to zero when there are no savings
PaybackYears_Zero(inst_cost, annual_savings) ==
    IF Sign(annual_savings) > 0 THEN Some(Div(inst_cost, annual_savings))
    ELSE Some(Int2Num(0))

PaybackYears(inst_cost, annual_savings) ==
    IF Sign(annual_savings) > 0 THEN Some(Div(inst_cost, annual_savings)) ELSE None

\* calculate_results with the capacity taken from the area (10 m2 per kW)
calculate_results_AreaRule(area_m2, shadow_free_m2, irradiance, orientation_factor, tariff) ==
    LET effective_area == Min(area_m2, shadow_free_m2)
        annual_gen == AnnualGen(effective_area, irradiance, orientation_factor)
        capacity_kw == Div(effective_area, Int2Num(10))
        annual_savings == Mul(annual_gen, tariff)
        inst_cost == Mul(capacity_kw, Int2Num(COST_PER_KW))
        payback_years == PaybackYears(inst_cost, annual_savings)
        co2_tons == Div(Mul(annual_gen, CO2_FACTOR), Int2Num(1000))
    IN  [effective_area |-> effective_area,
         capacity_kw |-> capacity_kw,
         annual_gen |-> annual_gen,
         annual_savings |-> annual_savings,
         payback_years |-> payback_years,
         co2_tons |-> co2_tons,
         inst_cost |-> inst_cost]

calculate_results(area_m2, shadow_free_m2, irradiance, orientation_factor, tariff) ==
    LET effective_area == Min(area_m2, shadow_free_m2)
        annual_gen == AnnualGen(effective_area, irradiance, orientation_factor)
        capacity_kw == CapacityKw(annual_gen)
        annual_savings == Mul(annual_gen, tariff)
        inst_cost == Mul(capacity_kw, Int2Num(COST_PER_KW))
        payback_years == PaybackYears(inst_cost, annual_savings)
        co2_tons == Div(Mul(annual_gen, CO2_FACTOR), Int2Num(1000))
    IN  [effective_area |-> effective_area,
         capacity_kw |-> capacity_kw,
         annual_gen |-> annual_gen,
         annual_savings |-> annual_savings,
         payback_years |-> payback_years,
         co2_tons |-> co2_tons,
         inst_cost |-> inst_cost]

\* recommend_panel with the first boundary on the wrong side
recommend_panel_Inclusive(roof_area_sqft) ==
    IF Leq(roof_area_sqft, Int2Num(150)) THEN "Monocrystalline"
    ELSE IF Leq(Int2Num(150), roof_area_sqft) /\ Leq(roof_area_sqft, Int2Num(500))
    THEN "Polycrystalline"
    ELSE "Thin-Film"

recommend_panel(roof_area_sqft) ==
    IF Less(roof_area_sqft, Int2Num(150)) THEN "Monocrystalline"
    ELSE IF Leq(Int2Num(150), roof_area_sqft) /\ Leq(roof_area_sqft, Int2Num(500))
    THEN "Polycrystalline"
    ELSE "Thin-Film"

\* ------------------------------------------------------------------------
\* What the user may enter
\* ------------------------------------------------------------------------
AreaMethods == {"Enter directly", "Select house type"}
HouseTypes == DOMAIN HOUSE_TYPE_AREA
Orientations == DOMAIN ORIENTATION_FACTOR
\* the states selected in the model; "Andhra Pradesh" is the selectbox default
ModelStates == {"Andhra Pradesh", "Haryana", "Gujarat"}
Addresses == {"", "Connaught Place, New Delhi"}
\* typed roof areas: the number_input's steps, and 1076.39 sq ft (100 m2)
RoofEntries ==
    {Int2Num(ROOF_MIN + ROOF_STEP * k) : k \in 0..MaxAreaSteps}
        \cup {Mul(Int2Num(100), M2_TO_SQFT)}
ShadowEntries == {Int2Num(SHADOW_MIN + 250 * k) : k \in 0..MaxShadowSteps}
\* typed tariffs; None leaves the number_input at the state's default
TariffEntries == {Rat(0, 1), Rat(-1, 1)}

\* ------------------------------------------------------------------------
\* State
\* ------------------------------------------------------------------------
VARIABLES
    \* widget values (they persist from one run of the script to the next)
    area_method, roof_entry, house_type, address_input, shadow_input,
    orientation, state, tariff_input,
    \* the button whose press started this run: "none", "demo" or "calculate"
    button,
    \* the run of the script
    pc, lat, lon, geo_resp, pvgis_resp, irradiance, irradiance_source,
    results, panel_type, msgs, rendered, error, geocode_calls, pvgis_calls

widgets == <<area_method, roof_entry, house_type, address_input, shadow_input,
             orientation, state, tariff_input>>
run == <<pc, lat, lon, geo_resp, pvgis_resp, irradiance, irradiance_source,
         results, panel_type, msgs, rendered, error, geocode_calls, pvgis_calls>>
vars == <<widgets, button, run>>

\* script variables that are functions of the widget values
roof_area_sqft ==
    IF area_method = "Enter directly" THEN roof_entry
    ELSE Int2Num(HOUSE_TYPE_AREA[house_type])
roof_area_m2 == Div(roof_area_sqft, M2_TO_SQFT)
address == IF button = "demo" THEN "India Gate, Delhi" ELSE address_input
shadow_free_sqft == IF shadow_input = None THEN roof_area_sqft ELSE Val(shadow_input)
shadow_free_m2 == Div(shadow_free_sqft, M2_TO_SQFT)
orientation_factor == ORIENTATION_FACTOR[orientation]
tariff == IF tariff_input = None THEN Rat(STATE_TARIFFS[state], 10) ELSE Val(tariff_input)

\* messages the top of the script writes (lines 177 and 182)
StartMsgs(method, btn) ==
    (IF method = "Select house type"
     THEN <<Msg("info", "default roof area")>> ELSE <<>>)
    \o (IF btn = "demo" THEN <<Msg("info", "demo address")>> ELSE <<>>)

\* the script starts from its first line: lines 159-182
StartRun(method, btn) ==
    /\ pc' = "geocode"
    /\ lat' = None
    /\ lon' = None
    /\ geo_resp' = None
    /\ pvgis_resp' = None
    /\ irradiance' = None
    /\ irradiance_source' = "state average"
    /\ results' = None
    /\ panel_type' = ""
    /\ msgs' = StartMsgs(method, btn)
    /\ rendered' = 0
    /\ error' = ""
    /\ geocode_calls' = 0
    /\ pvgis_calls' = 0

Init ==
    /\ area_method = "Enter directly"
    /\ roof_entry = Int2Num(ROOF_MIN)
    /\ house_type = "Villa"
    /\ address_input = ""
    /\ shadow_input = None
    /\ orientation = "South (best)"
    /\ state = "Andhra Pradesh"
    /\ tariff_input = None
    /\ button = "none"
    /\ pc = "geocode"
    /\ lat = None
    /\ lon = None
    /\ geo_resp = None
    /\ pvgis_resp = None
    /\ irradiance = None
    /\ irradiance_source = "state average"
    /\ results = None
    /\ panel_type = ""
    /\ msgs = <<>>
    /\ rendered = 0
    /\ error = ""
    /\ geocode_calls = 0
    /\ pvgis_calls = 0

\* ------------------------------------------------------------------------
\* The user's interactions: each changes one widget and re-runs the script
\* ------------------------------------------------------------------------
SelectAreaMethod ==
    /\ pc = "done"
    /\ \E m \in AreaMethods \ {area_method} :
        /\ area_method' = m
        /\ StartRun(m, "none")
    /\ roof_entry' = Int2Num(ROOF_MIN)
    /\ house_type' = "Villa"
    /\ button' = "none"
    /\ UNCHANGED <<address_input, shadow_input, orientation, state, tariff_input>>

EnterRoofArea ==
    /\ pc = "done"
    /\ area_method = "Enter directly"
    /\ \E a \in RoofEntries : roof_entry' = a
    /\ button' = "none"
    /\ StartRun(area_method, "none")
    /\ UNCHANGED <<area_method, house_type, address_input, shadow_input,
                   orientation, state, tariff_input>>

SelectHouseType ==
    /\ pc = "done"
    /\ area_method = "Select house type"
    /\ \E h \in HouseTypes : house_type' = h
    /\ button' = "none"
    /\ StartRun(area_method, "none")
    /\ UNCHANGED <<area_method, roof_entry, address_input, shadow_input,
                   orientation, state, tariff_input>>

EnterAddress ==
    /\ pc = "done"
    /\ \E a \in Addresses : address_input' = a
    /\ button' = "none"
    /\ StartRun(area_method, "none")
    /\ UNCHANGED <<area_method, roof_entry, house_type, shadow_input,
                   orientation, state, tariff_input>>

EnterShadowFree ==
    /\ pc = "done"
    /\ \E s \in ShadowEntries : shadow_input' = Some(s)
    /\ button' = "none"
    /\ StartRun(area_method, "none")
    /\ UNCHANGED <<area_method, roof_entry, house_type, address_input,
                   orientation, state, tariff_input>>

SelectOrientation ==
    /\ pc = "done"
    /\ \E o \in Orientations : orientation' = o
    /\ button' = "none"
    /\ StartRun(area_method, "none")
    /\ UNCHANGED <<area_method, roof_entry, house_type, address_input,
                   shadow_input, state, tariff_input>>

SelectState ==
    /\ pc = "done"
    /\ \E s \in ModelStates : state' = s
    /\ button' = "none"
    /\ StartRun(area_method, "none")
    /\ UNCHANGED <<area_method, roof_entry, house_type, address_input,
                   shadow_input, orientation, tariff_input>>

EnterTariff ==
    /\ pc = "done"
    /\ \E t \in TariffEntries : tariff_input' = Some(t)
    /\ button' = "none"
    /\ StartRun(area_method, "none")
    /\ UNCHANGED <<area_method, roof_entry, house_type, address_input,
                   shadow_input, orientation, state>>

PressDemo ==
    /\ pc = "done"
    /\ button' = "demo"
    /\ StartRun(area_method, "demo")
    /\ UNCHANGED widgets

PressCalculate ==
    /\ pc = "done"
    /\ button' = "calculate"
    /\ StartRun(area_method, "calculate")
    /\ UNCHANGED widgets

\* ------------------------------------------------------------------------
\* The run of the script
\* ------------------------------------------------------------------------
\* "if address:"
AddressGiven(a) == a # ""

\* the coordinate test dropped: PVGIS asked in every run
HasCoordinate_Always(la, lo) == TRUE

\* "if lat and lon:"
HasCoordinate(la, lo) == Truthy(la) /\ Truthy(lo)

\* lines 184-188, the address given: one call of the geocoder
GeocodeCall ==
    /\ pc = "geocode"
    /\ AddressGiven(address)
    /\ \E r \in GeoResponses :
        LET g == geocode_address(r) IN
        /\ geo_resp' = Some(r)
        /\ lat' = g.lat
        /\ lon' = g.lon
        /\ msgs' = msgs \o g.out \o
                   (IF HasCoordinate(g.lat, g.lon)
                    THEN <<Msg("success", "geocoded")>> ELSE <<>>)
    /\ geocode_calls' = geocode_calls + 1
    /\ pc' = "irradiance"
    /\ UNCHANGED <<widgets, button, pvgis_resp, irradiance, irradiance_source,
                   results, panel_type, rendered, error, pvgis_calls>>

\* lines 184-188, no address: the geocoder is not called
GeocodeSkip ==
    /\ pc = "geocode"
    /\ ~AddressGiven(address)
    /\ pc' = "irradiance"
    /\ UNCHANGED <<widgets, button, lat, lon, geo_resp, pvgis_resp, irradiance,
                   irradiance_source, results, panel_type, msgs, rendered, error,
                   geocode_calls, pvgis_calls>>

\* the source set to "PVGIS" before the returned value is tested
SelectIrradiance_SourceFirst(pvgis_irradiance, st) ==
    IF pvgis_irradiance # None /\ Sign(Val(pvgis_irradiance)) # 0
    THEN [irradiance |-> pvgis_irradiance, source |-> "PVGIS"]
    ELSE [irradiance |-> Some(Int2Num(STATE_IRRADIANCES[st])), source |-> "PVGIS"]

\* lines 203-207: the value and the source shown for it
SelectIrradiance(pvgis_irradiance, st) ==
    IF pvgis_irradiance # None /\ Sign(Val(pvgis_irradiance)) # 0
    THEN [irradiance |-> pvgis_irradiance, source |-> "PVGIS"]
    ELSE [irradiance |-> Some(Int2Num(STATE_IRRADIANCES[st])),
          source |-> "state average"]

\* lines 190-211 with a coordinate: one call of PVGIS
IrradianceFromService ==
    /\ pc = "irradiance"
    /\ HasCoordinate(lat, lon)
    /\ \E r \in PvgisResponses :
        LET p == get_pvgis_irradiance(r)
            sel == SelectIrradiance(p.ret, state)
        IN
        /\ pvgis_resp' = Some(r)
        /\ irradiance' = sel.irradiance
        /\ irradiance_source' = sel.source
        /\ msgs' = msgs \o p.out \o <<Msg("info", "irradiance used")>>
    /\ pvgis_calls' = pvgis_calls + 1
    /\ pc' = "calculate"
    /\ UNCHANGED <<widgets, button, lat, lon, geo_resp, results, panel_type,
                   rendered, error, geocode_calls>>

\* lines 190-211 without a coordinate: the state's average
IrradianceFallback ==
    /\ pc = "irradiance"
    /\ ~HasCoordinate(lat, lon)
    /\ irradiance' = Some(Int2Num(STATE_IRRADIANCES[state]))
    /\ msgs' = msgs \o <<Msg("info", "irradiance used")>>
    /\ pc' = "calculate"
    /\ UNCHANGED <<widgets, button, lat, lon, geo_resp, pvgis_resp,
                   irradiance_source, results, panel_type, rendered, error,
                   geocode_calls, pvgis_calls>>

\* lines 222-229: eight lines are written; the sixth formats payback_years
\* with ":.2f", which raises TypeError when it is None
RenderResults(res) ==
    IF res.payback_years = None
    THEN [rendered |-> 5, error |-> "TypeError"]
    ELSE [rendered |-> 8, error |-> ""]

\* lines 213-231, the Calculate button pressed
Calculate ==
    /\ pc = "calculate"
    /\ button = "calculate"
    /\ IF Sign(roof_area_m2) # 0
       THEN LET res == calculate_results(roof_area_m2, shadow_free_m2,
                                         Val(irradiance), orientation_factor, tariff)
                shown == RenderResults(res)
            IN  /\ results' = Some(res)
                /\ panel_type' = recommend_panel(roof_area_sqft)
                /\ rendered' = shown.rendered
                /\ error' = shown.error
                /\ msgs' = msgs
       ELSE /\ msgs' = msgs \o <<Msg("error", "roof area")>>
            /\ UNCHANGED <<results, panel_type, rendered, error>>
    /\ pc' = "done"
    /\ UNCHANGED <<widgets, button, lat, lon, geo_resp, pvgis_resp, irradiance,
                   irradiance_source, geocode_calls, pvgis_calls>>

\* lines 213-231, the button not pressed: nothing is computed
NoCalculate ==
    /\ pc = "calculate"
    /\ button # "calculate"
    /\ pc' = "done"
    /\ UNCHANGED <<widgets, button, lat, lon, geo_resp, pvgis_resp, irradiance,
                   irradiance_source, results, panel_type, msgs, rendered, error,
                   geocode_calls, pvgis_calls>>

Next ==
    \/ SelectAreaMethod
    \/ EnterRoofArea
    \/ SelectHouseType
    \/ EnterAddress
    \/ EnterShadowFree
    \/ SelectOrientation
    \/ SelectState
    \/ EnterTariff
    \/ PressDemo
    \/ PressCalculate
    \/ GeocodeCall
    \/ GeocodeSkip
    \/ IrradianceFromService
    \/ IrradianceFallback
    \/ Calculate
    \/ NoCalculate

Spec == Init /\ [][Next]_vars

\* ------------------------------------------------------------------------
\* Properties
\* ------------------------------------------------------------------------
\* lo <= x < hi
Within(x, lo, hi) == Leq(lo, x) /\ Less(x, hi)

\* every roof area the model enters, in sq ft and in m2
AllRoofAreas == RoofEntries \cup {Int2Num(HOUSE_TYPE_AREA[h]) : h \in HouseTypes}
AllAreasM2 == {Div(a, M2_TO_SQFT) : a \in AllRoofAreas \cup ShadowEntries}

StateAverage == Some(Int2Num(STATE_IRRADIANCES[state]))
IrradianceResolved == pc \in {"calculate", "done"}
Warned(about) ==
    \E i \in DOMAIN msgs : msgs[i].level = "warning" /\ msgs[i].about = about

\* C1: whenever calculate_results has run, annual_savings <= 0 makes
\* payback_years absent (None: not zero, not a number), and annual_savings > 0
\* makes it present and equal to inst_cost / annual_savings.
C1_PaybackAbsentWithoutSavings ==
    results # None =>
        LET r == Val(results) IN
        /\ r.annual_savings = Mul(r.annual_gen, tariff)
        /\ Sign(r.annual_savings) <= 0 => r.payback_years = None
        /\ Sign(r.annual_savings) > 0 =>
               /\ r.payback_years # None
               /\ Mul(Val(r.payback_years), r.annual_savings) = r.inst_cost

C1_Witness ==
    /\ results # None
    /\ Sign(Val(results).annual_gen) > 0
    /\ Sign(Val(results).annual_savings) < 0
    /\ Val(results).payback_years = None

\* Scenario 1: 100 m2 of roof, all of it shadow-free, 1700 kWh/m2/yr, facing
\* South, 7.0 rupees per kWh, and the estimate computed.
Scenario1 ==
    /\ results # None
    /\ roof_area_m2 = Int2Num(100)
    /\ shadow_free_m2 = Int2Num(100)
    /\ irradiance = Some(Int2Num(1700))
    /\ orientation_factor = Int2Num(1)
    /\ tariff = Int2Num(7)

\* C2 as stated: scenario 1 yields 28,900 kWh, savings 202,300, capacity 10 kW,
\* cost 500,000, payback about 2.47 years and about 23.7 tons of CO2.
C2_Scenario1AsStated ==
    Scenario1 =>
        LET r == Val(results) IN
        /\ r.annual_gen = Int2Num(28900)
        /\ r.annual_savings = Int2Num(202300)
        /\ r.capacity_kw = Int2Num(10)
        /\ r.inst_cost = Int2Num(500000)
        /\ r.payback_years # None
        /\ Within(Val(r.payback_years), Rat(2465, 1000), Rat(2475, 1000))
        /\ Within(r.co2_tons, Rat(2365, 100), Rat(2375, 100))

\* C2 amended: scenario 1 yields 28,900 kWh, savings 202,300 and about 23.7
\* tons of CO2; the capacity is 28,900 / 1500, about 19.27 kW, the cost about
\* 963,333 and the payback about 4.76 years.
C2_Scenario1SpecificYield ==
    Scenario1 =>
        LET r == Val(results) IN
        /\ r.annual_gen = Int2Num(28900)
        /\ r.annual_savings = Int2Num(202300)
        /\ r.capacity_kw = Rat(28900, 1500)
        /\ Within(r.capacity_kw, Rat(19265, 1000), Rat(19275, 1000))
        /\ Within(r.inst_cost, Int2Num(963333), Int2Num(963334))
        /\ r.payback_years # None
        /\ Within(Val(r.payback_years), Rat(4755, 1000), Rat(4765, 1000))
        /\ Within(r.co2_tons, Rat(2365, 100), Rat(2375, 100))

C2_Witness ==
    /\ Scenario1
    /\ pc = "done"
    /\ Val(results).effective_area = Int2Num(100)
    /\ Val(results).annual_gen = Int2Num(28900)

\* C3: the effective area is the minimum of the roof area and the shadow-free
\* area: one of the two, no larger than either, and no smaller than the
\* effective area of any call with one argument raised and the other kept.
C3_EffectiveAreaIsMin ==
    results # None =>
        LET eff == Val(results).effective_area
            Eff(a, sf) == calculate_results(a, sf, Val(irradiance),
                                            orientation_factor, tariff).effective_area
        IN
        /\ eff \in {roof_area_m2, shadow_free_m2}
        /\ Leq(eff, roof_area_m2)
        /\ Leq(eff, shadow_free_m2)
        /\ \A a \in AllAreasM2 :
               /\ Leq(roof_area_m2, a) => Leq(eff, Eff(a, shadow_free_m2))
               /\ Leq(shadow_free_m2, a) => Leq(eff, Eff(roof_area_m2, a))

C3_Witness ==
    /\ results # None
    /\ Less(shadow_free_m2, roof_area_m2)
    /\ Val(results).effective_area = shadow_free_m2
    /\ \E a \in AllAreasM2 : Less(shadow_free_m2, a) /\ Less(a, roof_area_m2)

\* C4: once the irradiance step has run the irradiance is defined; without a
\* coordinate, or with a PVGIS call that raised, answered a status other than
\* 200 or lacked the annual-yield field, it is the selected state's value and
\* shown as "state average"; it is shown as "PVGIS" only when it is the value
\* the service returned.
C4_IrradianceProvenance ==
    IrradianceResolved =>
        /\ irradiance # None
        /\ error = "" \/ pc = "done"
        /\ irradiance_source \in {"PVGIS", "state average"}
        /\ ( \/ lat = None
             \/ lon = None
             \/ pvgis_resp = None
             \/ Val(pvgis_resp).raised
             \/ Val(pvgis_resp).status # 200
             \/ Val(pvgis_resp).E_y = None )
           => irradiance = StateAverage /\ irradiance_source = "state average"
        /\ irradiance_source = "PVGIS" =>
               /\ pvgis_resp # None
               /\ ~Val(pvgis_resp).raised
               /\ Val(pvgis_resp).status = 200
               /\ Val(pvgis_resp).E_y # None
               /\ irradiance = Val(pvgis_resp).E_y

C4_Witness ==
    /\ pc = "done"
    /\ results # None
    /\ pvgis_resp # None
    /\ Val(pvgis_resp).status = 200
    /\ Val(pvgis_resp).E_y = None
    /\ irradiance = StateAverage
    /\ irradiance_source = "state average"

\* C5: the recommendation is one of the three types, Monocrystalline below
\* 150, Polycrystalline from 150 to 500 inclusive, Thin-Film above 500, and
\* no larger area is recommended a type earlier in that order.
Rank(p) ==
    CASE p = "Monocrystalline" -> 1
      [] p = "Polycrystalline" -> 2
      [] p = "Thin-Film" -> 3

C5_RecommendationMonotone ==
    panel_type # "" =>
        /\ panel_type \in {"Monocrystalline", "Polycrystalline", "Thin-Film"}
        /\ Less(roof_area_sqft, Int2Num(150)) <=> panel_type = "Monocrystalline"
        /\ (Leq(Int2Num(150), roof_area_sqft) /\ Leq(roof_area_sqft, Int2Num(500)))
               <=> panel_type = "Polycrystalline"
        /\ Less(Int2Num(500), roof_area_sqft) <=> panel_type = "Thin-Film"
        /\ \A a \in AllRoofAreas :
               Leq(roof_area_sqft, a) => Rank(recommend_panel(a)) >= Rank(panel_type)

C5_Witness ==
    /\ panel_type = "Polycrystalline"
    /\ roof_area_sqft = Int2Num(500)
    /\ \E a \in AllRoofAreas : Less(roof_area_sqft, a)

\* C6 as stated: whenever the geocoder was called and gave no coordinate
\* (exception, status other than 200, or no match) a warning about the
\* geocoding failure has been shown in that run.
C6_GeocodeFailureSurfaced ==
    (geo_resp # None /\ lat = None) => Warned("geocoding failed")

C8_NoRetry ==
    /\ geocode_calls \in {0, 1}
    /\ pvgis_calls \in {0, 1}
    /\ geocode_calls = 1 <=> geo_resp # None
    /\ pvgis_calls = 1 <=> pvgis_resp # None
    /\ geocode_calls = 1 => address # ""
    /\ pvgis_calls = 1 =>
           /\ geocode_calls = 1
           /\ Val(geo_resp).status = 200
           /\ Val(geo_resp).results # <<>>
           /\ lat # None /\ lon # None
    /\ (geo_resp # None /\ lat = None /\ pc # "irradiance") =>
           /\ pvgis_calls = 0
           /\ irradiance = StateAverage
    /\ (pvgis_resp # None /\ (Val(pvgis_resp).raised \/ Val(pvgis_resp).status # 200)) =>
           irradiance = StateAverage
    /\ results # None => pc = "done" /\ irradiance # None

C8_Witness ==
    /\ pc = "done"
    /\ results # None
    /\ geocode_calls = 1
    /\ pvgis_calls = 1
    /\ Val(pvgis_resp).raised
    /\ irradiance = StateAverage

C10_CalculateRendersAll ==
    (pc = "done" /\ button = "calculate") => (error = "" /\ rendered = 8)

====
